---- MODULE Spec2Model ----
(***************************************************************************)
(* The sentiment dashboard of src/media.py as a state machine.             *)
(*                                                                         *)
(* The program is one Streamlit script.  Every browser session runs it     *)
(* from top to bottom on connect and again after every widget change.      *)
(* The only state that outlives a run is the process-wide cache behind     *)
(* load_data (st.cache_data) and, per session, the widget values.          *)
(*                                                                         *)
(* Encoding.  A relation (DataFrame) is a sequence of rows; the position   *)
(* of a row is its index label (read_csv's RangeIndex, shifted by one).    *)
(* Platform names are sequences of ASCII codes so that str.title() and     *)
(* sorted() are computed, not assumed.  Country and sentiment labels are   *)
(* strings; their lexicographic order is given by CountryOrder and         *)
(* SentimentOrder.  A mean is the pair <<sum, count>>.                     *)
(***************************************************************************)
EXTENDS Integers, Sequences, FiniteSets, TLC

VARIABLES
    file,     \* the rows of sentimentdataset.csv, as read_csv returns them
    cache,    \* st.cache_data's store for load_data: <<>> or <<relation>>
    reads,    \* how many times the body of load_data has run
    lock,     \* holder of the cache's compute lock, 0 when free
    pc,       \* per session: where its script run stands
    widgets,  \* per session: the widget values kept across reruns
    out,      \* per session: what the last script run rendered
    ties      \* the order this build's sort leaves equal counts in

vars == <<file, cache, reads, lock, pc, widgets, out, ties>>

(***************************************************************************)
(* Bounds of the model and constants of the program.                       *)
(***************************************************************************)
MaxRows == 3
MaxLikes == 2
MaxTail == 1
NSessions == 2

TopN == 10
MaxSelections == 5
DefaultCompare == 2
MinDay == 1
MaxDay == 31

Sessions == 1..NSessions

\* pandas' missing value (an empty Country cell)
NaN == "NaN"

\* Label universes in lexicographic (sorted()) order.
CountryOrder ==
    <<"Canada", "France", "Germany", "India", "Japan",
      "United Kingdom", "United States">>
SentimentOrder ==
    <<"Anger", "Joy", "Sad", "s04", "s05", "s06", "s07", "s08",
      "s09", "s10", "s11", "s12", "s13">>

\* Platform spellings, as ASCII codes: "fb", "tW", "tw", "Tw", "a b".
P_fb == <<102, 98>>
P_tW == <<116, 87>>
P_tw == <<116, 119>>
P_Tw == <<84, 119>>
P_ab == <<97, 32, 98>>

(***************************************************************************)
(* Generic helpers.                                                        *)
(***************************************************************************)
Min2(a, b) == IF a <= b THEN a ELSE b

SetMin(S) == CHOOSE x \in S : \A y \in S : x <= y

SetMax(S) == CHOOSE x \in S : \A y \in S : x >= y

RECURSIVE Asc(_)
\* the integers of S in ascending order
Asc(S) == IF S = {} THEN <<>> ELSE <<SetMin(S)>> \o Asc(S \ {SetMin(S)})

RECURSIVE SumSeq(_)
SumSeq(q) == IF q = <<>> THEN 0 ELSE Head(q) + SumSeq(Tail(q))

Range(q) == {q[i] : i \in DOMAIN q}

Take(q, n) == SubSeq(q, 1, Min2(n, Len(q)))

SeqsUpTo(S, n) == UNION {[1..k -> S] : k \in 1..n}

(***************************************************************************)
(* Strings: str.title() and the order sorted() uses.                       *)
(***************************************************************************)
IsUpperCh(c) == c \in 65..90

IsLowerCh(c) == c \in 97..122

IsCased(c) == IsUpperCh(c) \/ IsLowerCh(c)

UpperCh(c) == IF IsLowerCh(c) THEN c - 32 ELSE c

LowerCh(c) == IF IsUpperCh(c) THEN c + 32 ELSE c

\* A mutant of Title: the loader without the normalisation pass.
TitleIdentity(s) == s

\* str.title(): a cased character is upper-cased when the character before
\* it is not cased (or there is none), lower-cased otherwise.
Title(s) ==
    [i \in 1..Len(s) |->
        IF IsCased(s[i])
        THEN IF i > 1 /\ IsCased(s[i - 1]) THEN LowerCh(s[i]) ELSE UpperCh(s[i])
        ELSE s[i]]

\* str.lower(), used only to state what "differ only by letter case" means
LowerStr(s) == [i \in 1..Len(s) |-> LowerCh(s[i])]

\* a < b in Python's string order (code point by code point, prefix first)
StrLess(a, b) ==
    \E k \in 1..Len(b) :
        /\ k - 1 <= Len(a)
        /\ \A j \in 1..(k - 1) : a[j] = b[j]
        /\ IF k > Len(a) THEN TRUE ELSE a[k] < b[k]

RECURSIVE SortStrs(_)
\* sorted() of a set of strings
SortStrs(S) ==
    IF S = {} THEN <<>>
    ELSE LET m == CHOOSE x \in S : \A y \in S \ {x} : StrLess(x, y)
         IN  <<m>> \o SortStrs(S \ {m})

\* sorted() of a set of labels, given the labels' order
SortLabels(S, order) == SelectSeq(order, LAMBDA x : x \in S)

(***************************************************************************)
(* pandas: columns, unique, counts.                                        *)
(***************************************************************************)
Col(df, name) == [i \in 1..Len(df) |-> df[i][name]]

\* Series.unique(): the distinct values in order of first appearance
Unique(q) ==
    LET first == {i \in DOMAIN q : \A j \in 1..(i - 1) : q[j] # q[i]}
        idx == Asc(first)
    IN  [k \in 1..Len(idx) |-> q[idx[k]]]

DropNa(q) == SelectSeq(q, LAMBDA x : x # NaN)

\* the index labels 1..Len(df) of a frame
Index(df) == 1..Len(df)

(***************************************************************************)
(* load_data (lines 13-17) and the cache in front of it.                   *)
(***************************************************************************)
\* the body of load_data: read_csv, then Platform re-cased to title case
load_data(f) == [i \in 1..Len(f) |-> [f[i] EXCEPT !.Platform = Title(@)]]

\* A mutant of CacheHas: load_data without its cache decorator.
CacheNever(c) == FALSE

\* st.cache_data's lookup: is there a stored result for load_data()?
CacheHas(c) == c # <<>>

(***************************************************************************)
(* Lines 21-46: platforms and the most liked post of each.                 *)
(***************************************************************************)
unique_platforms(df) == SortStrs(Range(Col(df, "Platform")))

\* A mutant of IdxMaxLikes: the last row at the maximum instead of the first.
IdxMaxLikesLast(df, p) ==
    LET grp == {i \in 1..Len(df) : df[i].Platform = p}
        top == SetMax({df[i].Likes : i \in grp})
    IN  SetMax({i \in grp : df[i].Likes = top})

\* groupby("Platform")["Likes"].idxmax() for group p: the index label of
\* the first row of the group holding the group's maximum
IdxMaxLikes(df, p) ==
    LET grp == {i \in 1..Len(df) : df[i].Platform = p}
        top == SetMax({df[i].Likes : i \in grp})
    IN  SetMin({i \in grp : df[i].Likes = top})

\* df.loc[...idxmax()]: one index label per group, groups in sorted order
most_liked_by_platform(df) ==
    LET keys == unique_platforms(df)
    IN  [k \in 1..Len(keys) |-> IdxMaxLikes(df, keys[k])]

\* lines 36-46: the rows of the top-post table for the radio's platform
platform_post(df, sel) ==
    SelectSeq(most_liked_by_platform(df), LAMBDA i : df[i].Platform = sel)

(***************************************************************************)
(* Lines 48-57: the sidebar filters.                                       *)
(***************************************************************************)
country_options(df) == Unique(DropNa(Col(df, "Country")))

year_min(df) == SetMin(Range(Col(df, "Year")))

year_max(df) == SetMax(Range(Col(df, "Year")))

month_options(df) == Unique(Col(df, "Month"))

\* line 50
country_filtered(df, w) == Asc({i \in Index(df) : df[i].Country = w.country})

\* line 57: assigned to the same name, from df, so line 50's result is lost
filtered_df(df, w) ==
    LET byCountry == country_filtered(df, w)
    IN  Asc({i \in Index(df) :
                df[i].Year = w.year /\ df[i].Month = w.month /\ df[i].Day = w.day})

(***************************************************************************)
(* Lines 62-76, 102-114: the top sentiments and the views cut to them.     *)
(***************************************************************************)
RECURSIVE SortByCount(_, _, _)
\* keys ordered by count, descending; among equal counts the key of the
\* least rank comes first
SortByCount(keys, cnt, rank) ==
    IF keys = {} THEN <<>>
    ELSE LET best == SetMax({cnt[k] : k \in keys})
             m == CHOOSE k \in keys :
                      /\ cnt[k] = best
                      /\ \A j \in keys : cnt[j] = best => rank[k] <= rank[j]
         IN  <<m>> \o SortByCount(keys \ {m}, cnt, rank)

\* The orders sort_values (kind="quicksort", not a stable sort) may leave
\* equal counts in: as first seen, or reversed.
TieOrders == {"first", "last"}

\* Series.value_counts(): the labels in first-seen order, then sorted by
\* count, descending; `tie` is the order the sort leaves equal counts in
value_counts(q, tie) ==
    LET u == Unique(q)
        cnt == [x \in Range(u) |-> Cardinality({i \in DOMAIN q : q[i] = x})]
        pos == [x \in Range(u) |-> CHOOSE k \in DOMAIN u : u[k] = x]
        rank == [x \in Range(u) |-> IF tie = "first" THEN pos[x] ELSE 0 - pos[x]]
        keys == SortByCount(Range(u), cnt, rank)
    IN  [k \in 1..Len(keys) |-> [label |-> keys[k], count |-> cnt[keys[k]]]]

\* Series.nlargest(n), keep="first": the n largest counts, equal counts in
\* the order of the series
nlargest(n, vc) ==
    LET cnt == [k \in DOMAIN vc |-> vc[k].count]
        pos == [k \in DOMAIN vc |-> k]
        ord == SortByCount(DOMAIN vc, cnt, pos)
    IN  [k \in 1..Min2(n, Len(vc)) |-> vc[ord[k]]]

\* A mutant of top_sentiments: the cut-off forgotten.
top_sentiments_all(df, tie) ==
    LET vc == value_counts(Col(df, "Sentiment"), tie)
    IN  [k \in DOMAIN vc |-> vc[k].label]

\* line 63: df["Sentiment"].value_counts().nlargest(10).index
top_sentiments(df, tie) ==
    LET top == nlargest(TopN, value_counts(Col(df, "Sentiment"), tie))
    IN  [k \in DOMAIN top |-> top[k].label]

\* line 64: df[df["Sentiment"].isin(top_10_sentiments)]
sentiment_filtered_df(df, top) ==
    Asc({i \in Index(df) : df[i].Sentiment \in Range(top)})

\* px.bar(frame, x=column): one bar per value, as high as its row count
BarCounts(df, rows, column) ==
    LET vals == {df[i][column] : i \in Range(rows)}
    IN  [x \in vals |-> Cardinality({i \in Range(rows) : df[i][column] = x})]

\* frame.groupby(column)["Likes"].mean(): per group, <<sum, count>>
MeanLikes(df, rows, column) ==
    LET vals == {df[i][column] : i \in Range(rows)}
        grp(x) == SelectSeq(rows, LAMBDA i : df[i][column] = x)
    IN  [x \in vals |->
            <<SumSeq([k \in DOMAIN grp(x) |-> df[grp(x)[k]].Likes]), Len(grp(x))>>]

(***************************************************************************)
(* Lines 116-119: the platform-by-sentiment pivot.                         *)
(***************************************************************************)
\* A mutant of PivotCell: whether the pair occurs, not how often.
PivotCellSeen(df, p, s) ==
    IF \E i \in 1..Len(df) : df[i].Platform = p /\ df[i].Sentiment = s
    THEN 1 ELSE 0

\* aggfunc="size", fill_value=0
PivotCell(df, p, s) ==
    Cardinality({i \in Index(df) : df[i].Platform = p /\ df[i].Sentiment = s})

sentiment_platform_counts(df) ==
    LET P == Range(Col(df, "Platform"))
        S == Range(Col(df, "Sentiment"))
    IN  [index |-> SortStrs(P),
         columns |-> SortLabels(S, SentimentOrder),
         cell |-> [c \in P \X S |-> PivotCell(df, c[1], c[2])]]

(***************************************************************************)
(* Lines 121-128: the country-sentiment matrix.                            *)
(***************************************************************************)
\* the rows groupby(['Country', 'Sentiment']) keeps: a null key drops the row
Keyed(df) == Asc({i \in Index(df) : df[i].Country # NaN})

\* the matrix's sentiment columns: unstack() sorts the labels it found
SentimentColumns(df) ==
    SortLabels({df[i].Sentiment : i \in Range(Keyed(df))}, SentimentOrder)

\* the first of `columns` holding the greatest value: idxmax(axis=1)
IdxMaxColumn(columns, value) ==
    LET top == SetMax({value[columns[k]] : k \in DOMAIN columns})
    IN  columns[SetMin({k \in DOMAIN columns : value[columns[k]] = top})]

\* line 125 for one country: its count per sentiment column
CountryCounts(df, c) ==
    [s \in Range(SentimentColumns(df)) |->
        Cardinality({i \in Index(df) : df[i].Country = c /\ df[i].Sentiment = s})]

\* lines 125-127 for one country.  Total_Posts is added by line 126, so it
\* is one of the frame's columns when line 127 takes idxmax over the row.
CountryRow(df, c) ==
    LET sent == SentimentColumns(df)
        counts == CountryCounts(df, c)
        total == SumSeq([k \in DOMAIN sent |-> counts[sent[k]]])
        row126 == [x \in Range(sent) \cup {"Total_Posts"} |->
                     IF x = "Total_Posts" THEN total ELSE counts[x]]
    IN  [Country |-> c,
         counts |-> counts,
         Total_Posts |-> total,
         Dominant_Sentiment |-> IdxMaxColumn(sent \o <<"Total_Posts">>, row126)]

\* lines 125-128: one row per non-null country, in sorted order
country_sentiment(df) ==
    LET cs == SortLabels({df[i].Country : i \in Range(Keyed(df))}, CountryOrder)
    IN  [k \in 1..Len(cs) |-> CountryRow(df, cs[k])]

\* country_sentiment.columns after reset_index()
Columns(df) ==
    <<"Country">> \o SentimentColumns(df) \o <<"Total_Posts", "Dominant_Sentiment">>

\* A mutant of ValueVars: the slice [1:-1], which keeps Total_Posts.
ValueVarsWide(columns) == SubSeq(columns, 2, Len(columns) - 1)

\* columns[1:-2]
ValueVars(columns) == SubSeq(columns, 2, Len(columns) - 2)

\* line 171
country_list(df) ==
    LET m == country_sentiment(df)
    IN  SortLabels({m[k].Country : k \in DOMAIN m}, CountryOrder)

\* one cell of a matrix row, by column name
Cell(row, column) ==
    IF column = "Total_Posts" THEN row.Total_Posts
    ELSE IF column \in DOMAIN row.counts THEN row.counts[column]
    ELSE 0

\* frame.melt(id_vars=['Country'], value_vars=vv): for each value column in
\* turn, one row per row of the frame
Melt(frame, vv) ==
    [k \in 1..(Len(vv) * Len(frame)) |->
        LET v == vv[((k - 1) \div Len(frame)) + 1]
            r == frame[((k - 1) % Len(frame)) + 1]
        IN  [Country |-> r.Country, Sentiment |-> v, Count |-> Cell(r, v)]]

\* lines 181-204: the first tab
tab1(df, w) ==
    LET m == country_sentiment(df)
        country_data == SelectSeq(m, LAMBDA r : r.Country = w.map_country)
    IN  IF country_data # <<>>
        THEN [kind |-> "chart", rows |-> Melt(country_data, ValueVars(Columns(df)))]
        ELSE [kind |-> "warning", rows |-> <<>>]

\* lines 206-237: the second tab
tab2(df, w) ==
    LET m == country_sentiment(df)
        compare_data == SelectSeq(m, LAMBDA r : r.Country \in Range(w.compare))
    IN  IF w.compare # <<>>
        THEN [kind |-> "chart", rows |-> Melt(compare_data, ValueVars(Columns(df)))]
        ELSE [kind |-> "info", rows |-> <<>>]

(***************************************************************************)
(* Widgets: their values on a session's first run, and the whole script.   *)
(***************************************************************************)
\* a widget record before the session's first run
Fresh ==
    [fresh |-> TRUE, platform |-> <<>>, country |-> NaN, year |-> 0, month |-> 0,
     day |-> MinDay, map_country |-> NaN, compare |-> <<>>]

\* the value each widget returns on a first run (lines 29, 49, 53-55,
\* 172-176, 208-213)
Defaults(df) ==
    LET cl == country_list(df)
    IN  [fresh |-> FALSE,
         platform |-> unique_platforms(df)[1],
         country |-> country_options(df)[1],
         year |-> year_max(df),
         month |-> month_options(df)[1],
         day |-> MinDay,
         map_country |-> IF "United States" \in Range(cl)
                         THEN "United States" ELSE cl[1],
         compare |-> IF {"United States", "United Kingdom"} \subseteq Range(cl)
                     THEN <<"United States", "United Kingdom">>
                     ELSE Take(cl, DefaultCompare)]

\* one run of the script over df with widget values w: everything it shows
Render(df, w, tie) ==
    LET top == top_sentiments(df, tie)
        sfd == sentiment_filtered_df(df, top)
        all == [i \in 1..Len(df) |-> i]
    IN  [df |-> df,
         unique_platforms |-> unique_platforms(df),
         most_liked_by_platform |-> most_liked_by_platform(df),
         platform_post |-> platform_post(df, w.platform),
         country_options |-> country_options(df),
         month_options |-> month_options(df),
         filtered_df |-> filtered_df(df, w),
         top_10_sentiments |-> top,
         sentiment_filtered_df |-> sfd,
         fig1 |-> BarCounts(df, sfd, "Sentiment"),
         fig2 |-> BarCounts(df, all, "Platform"),
         platform_likes |-> MeanLikes(df, all, "Platform"),
         sentiment_likes |-> MeanLikes(df, sfd, "Sentiment"),
         sentiment_platform_counts |-> sentiment_platform_counts(df),
         country_sentiment |-> country_sentiment(df),
         columns |-> Columns(df),
         country_list |-> country_list(df),
         tab1 |-> tab1(df, w),
         tab2 |-> tab2(df, w)]

\* what a session shows before its first run
Blank == [df |-> <<>>]

(***************************************************************************)
(* Input files.                                                            *)
(***************************************************************************)
Row(p, c, y, m, d, s, l) ==
    [Platform |-> p, Country |-> c, Year |-> y, Month |-> m, Day |-> d,
     Sentiment |-> s, Likes |-> l]

\* "Twitter", "twitter", "Facebook", "Instagram"
P_Twitter == <<84, 119, 105, 116, 116, 101, 114>>
P_twitter == <<116, 119, 105, 116, 116, 101, 114>>
P_Facebook == <<70, 97, 99, 101, 98, 111, 111, 107>>
P_Instagram == <<73, 110, 115, 116, 97, 103, 114, 97, 109>>

\* the five rows of the end-to-end scenario
Fixture5 ==
    <<Row(P_Twitter, "United States", 2023, 1, 1, "Joy", 10),
      Row(P_twitter, "United States", 2023, 1, 1, "Joy", 50),
      Row(P_Facebook, "United Kingdom", 2023, 2, 2, "Anger", 5),
      Row(P_Facebook, "United Kingdom", 2023, 2, 2, "Joy", 20),
      Row(P_Instagram, "United States", 2023, 1, 1, "Joy", 1)>>

\* the same with an older post and a post without country
Fixture7 ==
    Fixture5 \o
    <<Row(P_Instagram, "Canada", 2022, 1, 1, "Sad", 7),
      Row(P_Facebook, NaN, 2023, 2, 2, "Anger", 3)>>

\* files whose rows differ in the given columns only
Files(P, C, S, L) ==
    SeqsUpTo({Row(p, c, 2023, 1, 1, s, l) : p \in P, c \in C, s \in S, l \in L},
             MaxRows)

\* spellings of the platform column
FilesCase == Files({P_tw, P_Tw, P_tW, P_fb, P_ab}, {"Canada"}, {"Joy"}, {1})

\* likes within platforms
FilesLikes == Files({P_Tw, P_fb}, {"Canada"}, {"Joy"}, 0..MaxLikes)

\* platform against sentiment
FilesPivot == Files({P_Tw, P_fb}, {"Canada"}, {"Anger", "Joy"}, {1})

\* country, possibly missing, against sentiment; the script needs a country
FilesCountry ==
    {f \in Files({P_fb}, {NaN, "Canada", "United States"}, {"Anger", "Joy"}, {1}) :
        \E i \in DOMAIN f : f[i].Country # NaN}

\* one post per country, for the first n countries
OnePerCountry(n) ==
    [k \in 1..n |-> Row(P_fb, CountryOrder[k], 2023, 1, 1, "Joy", 1)]

FilesCompare ==
    {OnePerCountry(Len(CountryOrder) - 1), OnePerCountry(Len(CountryOrder))}

\* twelve sentiment labels, once each, in label order or reversed, then up
\* to MaxTail further posts
TwelveLabels == SubSeq(SentimentOrder, 1, TopN + 2)

FilesTopN ==
    LET n == Len(TwelveLabels)
        fwd == [k \in 1..n |-> TwelveLabels[k]]
        rev == [k \in 1..n |-> TwelveLabels[n + 1 - k]]
        tails == {<<>>} \cup SeqsUpTo(Range(TwelveLabels), MaxTail)
    IN  {[k \in 1..Len(q) |-> Row(P_fb, "Canada", 2023, 1, 1, q[k], k % (MaxLikes + 1))] :
            q \in {b \o t : b \in {fwd, rev}, t \in tails}}

(***************************************************************************)
(* The state machine.                                                      *)
(***************************************************************************)
InitWith(F) ==
    /\ file \in F
    /\ ties \in TieOrders
    /\ cache = <<>>
    /\ reads = 0
    /\ lock = 0
    /\ pc = [s \in Sessions |-> "idle"]
    /\ widgets = [s \in Sessions |-> Fresh]
    /\ out = [s \in Sessions |-> Blank]

\* the rest of the script once load_data has returned df (lines 19-267):
\* widgets take their defaults on a first run, then everything is rendered
Finish(s, df) ==
    LET w == IF widgets[s].fresh THEN Defaults(df) ELSE widgets[s]
    IN  /\ widgets' = [widgets EXCEPT ![s] = w]
        /\ out' = [out EXCEPT ![s] = Render(df, w, ties)]
        /\ pc' = [pc EXCEPT ![s] = "idle"]

\* a browser session opens the page: its first script run starts
Connect(s) ==
    /\ pc[s] = "idle"
    /\ widgets[s].fresh
    /\ pc' = [pc EXCEPT ![s] = "load"]
    /\ UNCHANGED <<file, cache, reads, lock, widgets, out, ties>>

\* a widget of a rendered page gets a new value: the script reruns
Interact(s, w) ==
    /\ pc[s] = "idle"
    /\ ~widgets[s].fresh
    /\ w # widgets[s]
    /\ widgets' = [widgets EXCEPT ![s] = w]
    /\ pc' = [pc EXCEPT ![s] = "load"]
    /\ UNCHANGED <<file, cache, reads, lock, out, ties>>

\* line 29, the platform radio
SelectPlatform(s) ==
    /\ ~widgets[s].fresh
    /\ \E p \in Range(out[s].unique_platforms) :
           Interact(s, [widgets[s] EXCEPT !.platform = p])

\* line 49, the country selectbox
SelectCountry(s) ==
    /\ ~widgets[s].fresh
    /\ \E c \in Range(out[s].country_options) :
           Interact(s, [widgets[s] EXCEPT !.country = c])

\* line 53, the year slider
SelectYear(s) ==
    /\ ~widgets[s].fresh
    /\ \E y \in year_min(out[s].df)..year_max(out[s].df) :
           Interact(s, [widgets[s] EXCEPT !.year = y])

\* line 54, the month selectbox
SelectMonth(s) ==
    /\ ~widgets[s].fresh
    /\ \E m \in Range(out[s].month_options) :
           Interact(s, [widgets[s] EXCEPT !.month = m])

\* line 55, the day slider
SelectDay(s) ==
    /\ ~widgets[s].fresh
    /\ \E d \in MinDay..MaxDay :
           Interact(s, [widgets[s] EXCEPT !.day = d])

\* line 172, the map's country selectbox
SelectMapCountry(s) ==
    /\ ~widgets[s].fresh
    /\ \E c \in Range(out[s].country_list) :
           Interact(s, [widgets[s] EXCEPT !.map_country = c])

\* A mutant of CanSelect: the multiselect without max_selections.
CanSelectAny(sel) == TRUE

\* max_selections=5 (line 212): the control offers no further option once
\* five are selected
CanSelect(sel) == Len(sel) < MaxSelections

\* line 208, the comparison multiselect: one more country
SelectCompare(s) ==
    /\ ~widgets[s].fresh
    /\ \E c \in Range(out[s].country_list) \ Range(widgets[s].compare) :
           /\ CanSelect(widgets[s].compare)
           /\ Interact(s, [widgets[s] EXCEPT !.compare = Append(@, c)])

\* line 208, the comparison multiselect: one country removed
DeselectCompare(s) ==
    /\ ~widgets[s].fresh
    /\ \E c \in Range(widgets[s].compare) :
           Interact(s, [widgets[s] EXCEPT
                           !.compare = SelectSeq(@, LAMBDA x : x # c)])

\* line 19, load_data() with a stored result: the stored relation is returned
LoadHit(s) ==
    /\ pc[s] = "load"
    /\ CacheHas(cache)
    /\ Finish(s, cache[1])
    /\ UNCHANGED <<file, cache, reads, lock, ties>>

\* line 19, load_data() without a stored result: go for the compute lock
LoadMiss(s) ==
    /\ pc[s] = "load"
    /\ ~CacheHas(cache)
    /\ pc' = [pc EXCEPT ![s] = "miss"]
    /\ UNCHANGED <<file, cache, reads, lock, widgets, out, ties>>

\* the cache's compute lock is taken
AcquireLock(s) ==
    /\ pc[s] = "miss"
    /\ lock = 0
    /\ lock' = s
    /\ pc' = [pc EXCEPT ![s] = "locked"]
    /\ UNCHANGED <<file, cache, reads, widgets, out, ties>>

\* under the lock the cache is read again: another session has stored the
\* result meanwhile
RecheckHit(s) ==
    /\ pc[s] = "locked"
    /\ CacheHas(cache)
    /\ lock' = 0
    /\ Finish(s, cache[1])
    /\ UNCHANGED <<file, cache, reads, ties>>

\* under the lock, still nothing stored: the body of load_data runs, its
\* result is stored, the lock released, and the script goes on
Compute(s) ==
    /\ pc[s] = "locked"
    /\ ~CacheHas(cache)
    /\ reads' = reads + 1
    /\ cache' = <<load_data(file)>>
    /\ lock' = 0
    /\ Finish(s, load_data(file))
    /\ UNCHANGED <<file, ties>>

\* a script run, one session alone
RunAlone(s) == LoadHit(s) \/ LoadMiss(s) \/ AcquireLock(s) \/ Compute(s)

\* several sessions over the scenario files
Init == InitWith({Fixture5, Fixture7})

Next ==
    \E s \in Sessions :
        \/ Connect(s)
        \/ SelectPlatform(s)
        \/ LoadHit(s)
        \/ LoadMiss(s)
        \/ AcquireLock(s)
        \/ RecheckHit(s)
        \/ Compute(s)

Spec == Init /\ [][Next]_vars

\* one session and the sidebar filters
InitFilter == InitWith({Fixture5, Fixture7})

NextFilter ==
    \/ Connect(1)
    \/ SelectCountry(1)
    \/ SelectYear(1)
    \/ SelectMonth(1)
    \/ SelectDay(1)
    \/ RunAlone(1)

SpecFilter == InitFilter /\ [][NextFilter]_vars

\* one session over every small file: the derived tables
InitData == InitWith(FilesCase \cup FilesLikes \cup FilesPivot \cup FilesCountry)

NextData ==
    \/ Connect(1)
    \/ SelectPlatform(1)
    \/ SelectMapCountry(1)
    \/ RunAlone(1)

SpecData == InitData /\ [][NextData]_vars

\* one session and the comparison control
InitCompare == InitWith(FilesCompare)

NextCompare ==
    \/ Connect(1)
    \/ SelectCompare(1)
    \/ DeselectCompare(1)
    \/ RunAlone(1)

SpecCompare == InitCompare /\ [][NextCompare]_vars

\* one session over files with more sentiment labels than the cut-off
InitTopN == InitWith(FilesTopN)

NextTopN ==
    \/ Connect(1)
    \/ LoadMiss(1)
    \/ AcquireLock(1)
    \/ Compute(1)

SpecTopN == InitTopN /\ [][NextTopN]_vars

(***************************************************************************)
(* Properties.                                                             *)
(***************************************************************************)
\* session s shows the result of a finished script run for its widgets
Shown(s) == pc[s] = "idle" /\ ~widgets[s].fresh

\* the number of rows of df with the given country
PostsOf(df, c) == Cardinality({i \in 1..Len(df) : df[i].Country = c})

\* the sum of a table of counts
RECURSIVE SumOver(_, _)
SumOver(f, D) ==
    IF D = {} THEN 0
    ELSE LET x == CHOOSE y \in D : TRUE IN f[x] + SumOver(f, D \ {x})

\* the position of label x in the sequence q
PosIn(q, x) == CHOOSE k \in DOMAIN q : q[k] = x

\* C1 (as claimed): in every row of the country-sentiment matrix,
\* Dominant_Sentiment is a sentiment column, it holds the row's greatest
\* count, and no sentiment column before it holds that count too.
C1_DominantIsFirstArgmax ==
    \A s \in Sessions : Shown(s) =>
        \A k \in DOMAIN out[s].country_sentiment :
            LET r == out[s].country_sentiment[k]
                cols == SubSeq(out[s].columns, 2, Len(out[s].columns) - 2)
                d == r.Dominant_Sentiment
            IN  /\ d \in Range(cols)
                /\ \A x \in Range(cols) : r.counts[x] <= r.counts[d]
                /\ \A x \in Range(cols) :
                       r.counts[x] = r.counts[d] => PosIn(cols, d) <= PosIn(cols, x)

\* the rows of df matching all four sidebar selections of w
Matching(df, w) ==
    {i \in 1..Len(df) :
        /\ df[i].Country = w.country
        /\ df[i].Year = w.year
        /\ df[i].Month = w.month
        /\ df[i].Day = w.day}

\* C2 (as claimed): the filtered relation holds exactly the rows whose
\* country, year, month and day all equal the sidebar's selections.
C2_FilteredIsConjunction ==
    \A s \in Sessions : Shown(s) =>
        Range(out[s].filtered_df) = Matching(out[s].df, widgets[s])

\* C3 (as claimed): when the sidebar selection matches no row, the views
\* show no data: no bar, no mean, and no count other than 0.
C3_EmptySelectionShowsNoData ==
    \A s \in Sessions :
        (Shown(s) /\ Matching(out[s].df, widgets[s]) = {}) =>
            /\ DOMAIN out[s].fig1 = {}
            /\ DOMAIN out[s].fig2 = {}
            /\ DOMAIN out[s].platform_likes = {}
            /\ DOMAIN out[s].sentiment_likes = {}
            /\ \A c \in DOMAIN out[s].sentiment_platform_counts.cell :
                   out[s].sentiment_platform_counts.cell[c] = 0

\* C4: for every platform of the loaded relation the top-post table has
\* exactly one row, a post of that platform, with the platform's greatest
\* likes, and it is the first such post in row order.
C4_TopPostPerPlatform ==
    \A s \in Sessions : Shown(s) =>
        LET df == out[s].df
            top == out[s].most_liked_by_platform
        IN  /\ \A k \in DOMAIN top : top[k] \in 1..Len(df)
            /\ \A i \in 1..Len(df) :
                   LET hits == {k \in DOMAIN top : df[top[k]].Platform = df[i].Platform}
                   IN  /\ Cardinality(hits) = 1
                       /\ \A k \in hits :
                              /\ df[top[k]].Likes >= df[i].Likes
                              /\ df[top[k]].Likes = df[i].Likes => top[k] <= i

\* C4's case: a platform with two posts at its greatest likes
C4_Witness ==
    \E s \in Sessions :
        /\ Shown(s)
        /\ \E i, j \in 1..Len(out[s].df) :
               /\ i < j
               /\ out[s].df[i].Platform = out[s].df[j].Platform
               /\ out[s].df[i].Likes = out[s].df[j].Likes
               /\ i \in Range(out[s].most_liked_by_platform)
               /\ Len(out[s].most_liked_by_platform) > 1

\* how often label x occurs in the Sentiment column of df
Freq(df, x) == Cardinality({i \in 1..Len(df) : df[i].Sentiment = x})

\* the position at which label x is first seen in df
FirstSeen(df, x) == SetMin({i \in 1..Len(df) : df[i].Sentiment = x})

\* what C5 says apart from the order among equal frequencies: at most ten
\* labels, none twice, as many as there are when there are fewer, listed by
\* falling frequency, none less frequent than a label left out; and the two
\* sentiment views hold exactly the rows with these labels.
TopNByFrequency(s) ==
    LET df == out[s].df
        top == out[s].top_10_sentiments
        labels == Range(Col(df, "Sentiment"))
        kept == {i \in 1..Len(df) : df[i].Sentiment \in Range(top)}
    IN  /\ Len(top) = Min2(TopN, Cardinality(labels))
        /\ Cardinality(Range(top)) = Len(top)
        /\ Range(top) \subseteq labels
        /\ \A k \in 1..(Len(top) - 1) : Freq(df, top[k]) >= Freq(df, top[k + 1])
        /\ \A x \in Range(top) : \A y \in labels \ Range(top) :
               Freq(df, x) >= Freq(df, y)
        /\ Range(out[s].sentiment_filtered_df) = kept
        /\ DOMAIN out[s].fig1 = Range(top)
        /\ \A x \in Range(top) : out[s].fig1[x] = Freq(df, x)
        /\ DOMAIN out[s].sentiment_likes = Range(top)
        /\ \A x \in Range(top) : out[s].sentiment_likes[x][2] = Freq(df, x)
        /\ SumOver(out[s].fig1, DOMAIN out[s].fig1) <= Len(df)

\* the order C5 claims among equal frequencies: the label seen first comes
\* first, and is the one kept at the cut-off
TiesByFirstSeen(s) ==
    LET df == out[s].df
        top == out[s].top_10_sentiments
        labels == Range(Col(df, "Sentiment"))
    IN  /\ \A k \in 1..(Len(top) - 1) :
               Freq(df, top[k]) = Freq(df, top[k + 1])
                   => FirstSeen(df, top[k]) < FirstSeen(df, top[k + 1])
        /\ \A x \in Range(top) : \A y \in labels \ Range(top) :
               Freq(df, x) = Freq(df, y) => FirstSeen(df, x) < FirstSeen(df, y)

\* C5 (as claimed): the top-10 set is the ten or fewer most frequent
\* labels, equal frequencies ordered and cut off by first-seen order, and
\* the sentiment views hold only rows of these labels.
C5_TopNFirstSeenTies ==
    \A s \in Sessions : Shown(s) => TopNByFrequency(s) /\ TiesByFirstSeen(s)

\* C5 (amended): the same without the first-seen order among equal
\* frequencies, which the sort behind value_counts does not promise.
C5_TopNByFrequency ==
    \A s \in Sessions : Shown(s) => TopNByFrequency(s)

\* C5's case: more labels than the cut-off, and a label left out that is
\* as frequent as one kept
C5_Witness ==
    \E s \in Sessions :
        /\ Shown(s)
        /\ Len(out[s].top_10_sentiments) = TopN
        /\ \E x \in Range(out[s].top_10_sentiments) :
           \E y \in Range(Col(out[s].df, "Sentiment")) \ Range(out[s].top_10_sentiments) :
               Freq(out[s].df, x) = Freq(out[s].df, y)
        /\ \E x \in Range(out[s].top_10_sentiments) : Freq(out[s].df, x) > 1

\* C6: every cell of the pivot is the number of posts with that platform
\* and sentiment, 0 for a pair not in the data; its labels are the
\* platforms and the sentiments of the data; its cells sum to the number
\* of rows.
C6_PivotCounts ==
    \A s \in Sessions : Shown(s) =>
        LET df == out[s].df
            pv == out[s].sentiment_platform_counts
            P == {df[i].Platform : i \in 1..Len(df)}
            S == {df[i].Sentiment : i \in 1..Len(df)}
        IN  /\ Range(pv.index) = P /\ Len(pv.index) = Cardinality(P)
            /\ Range(pv.columns) = S /\ Len(pv.columns) = Cardinality(S)
            /\ DOMAIN pv.cell = P \X S
            /\ \A c \in P \X S :
                   pv.cell[c] = Cardinality({i \in 1..Len(df) :
                                    df[i].Platform = c[1] /\ df[i].Sentiment = c[2]})
            /\ SumOver(pv.cell, DOMAIN pv.cell) = Len(df)

\* C6's case: a pivot with a pair seen twice and a pair never seen
C6_Witness ==
    \E s \in Sessions :
        /\ Shown(s)
        /\ \E c \in DOMAIN out[s].sentiment_platform_counts.cell :
               out[s].sentiment_platform_counts.cell[c] = 2
        /\ \E c \in DOMAIN out[s].sentiment_platform_counts.cell :
               out[s].sentiment_platform_counts.cell[c] = 0

\* C7: the body of load_data runs at most once; once a relation is stored
\* it is the normalised file and stays so; every script run works on that
\* relation, also when several sessions missed the cache together.
C7_LoadedOnce ==
    /\ reads <= 1
    /\ (cache = <<>>) = (reads = 0)
    /\ cache # <<>> => cache = <<load_data(file)>>
    /\ \A s \in Sessions : ~widgets[s].fresh => cache # <<>> /\ out[s].df = cache[1]

\* C7's case: a session has loaded and rendered while another, which
\* missed the cache before the result was stored, holds the lock
C7_Witness ==
    \E s, t \in Sessions :
        /\ s # t
        /\ Shown(s)
        /\ reads = 1
        /\ pc[t] = "locked"

\* the raw rows whose platform is that of raw row i up to letter case
SameFolded(f, i) ==
    {j \in 1..Len(f) : LowerStr(f[j].Platform) = LowerStr(f[i].Platform)}

\* C8: raw platform values that differ only by letter case form one group,
\* "tw" and "Tw" the group "Tw", counted together in the platform list, the
\* top-post table, the platform counts, the average likes and the pivot.
C8_CaseVariantsMerged ==
    \A s \in Sessions : Shown(s) =>
        \A i \in 1..Len(file) :
            LET g == out[s].df[i].Platform
                n == Cardinality(SameFolded(file, i))
                pv == out[s].sentiment_platform_counts
            IN  /\ \A j \in SameFolded(file, i) : out[s].df[j].Platform = g
                /\ LowerStr(g) = LowerStr(file[i].Platform)
                /\ file[i].Platform \in {P_tw, P_Tw, P_tW} => g = P_Tw
                /\ Cardinality({k \in DOMAIN out[s].unique_platforms :
                                   LowerStr(out[s].unique_platforms[k]) = LowerStr(g)}) = 1
                /\ Cardinality({k \in DOMAIN out[s].most_liked_by_platform :
                                   out[s].most_liked_by_platform[k] \in SameFolded(file, i)}) = 1
                /\ out[s].fig2[g] = n
                /\ out[s].platform_likes[g][2] = n
                /\ SumOver([x \in Range(pv.columns) |-> pv.cell[<<g, x>>]],
                           Range(pv.columns)) = n

\* C8's case: the file spells one platform "tw" and "Tw"
C8_Witness ==
    \E s \in Sessions :
        /\ Shown(s)
        /\ \E i, j \in 1..Len(file) :
               file[i].Platform = P_tw /\ file[j].Platform = P_Tw
        /\ out[s].fig2[P_Tw] >= 2
        /\ Len(out[s].unique_platforms) > 1

\* C9: the comparison selection never holds more than five countries, all
\* of them countries of the matrix and none twice; the comparison chart
\* shows these countries only; an empty selection shows the prompt.
C9_CompareBounded ==
    \A s \in Sessions : ~widgets[s].fresh =>
        LET sel == widgets[s].compare
        IN  /\ Len(sel) <= MaxSelections
            /\ Cardinality(Range(sel)) = Len(sel)
            /\ Range(sel) \subseteq Range(out[s].country_list)
            /\ Range(out[s].country_list) =
                   {out[s].country_sentiment[k].Country :
                       k \in DOMAIN out[s].country_sentiment}
            /\ Shown(s) =>
                   /\ (sel = <<>>) = (out[s].tab2.kind = "info")
                   /\ (sel # <<>>) = (out[s].tab2.kind = "chart")
                   /\ {out[s].tab2.rows[k].Country : k \in DOMAIN out[s].tab2.rows}
                          = Range(sel)

\* C9's case: five countries are selected and a sixth is on offer
C9_Witness ==
    \E s \in Sessions :
        /\ Shown(s)
        /\ Len(widgets[s].compare) = MaxSelections
        /\ Range(out[s].country_list) \ Range(widgets[s].compare) # {}
        /\ out[s].tab2.kind = "chart"

\* the breakdown of the selected map country has exactly one Count per
\* label of L and no other entry, the Counts sum to the country's
\* Total_Posts, which is its number of rows; the dropdown offers exactly
\* the non-null countries, and the chart, not the warning, is shown
BreakdownOver(s, L) ==
    LET df == out[s].df
        c == widgets[s].map_country
        rows == out[s].tab1.rows
        m == out[s].country_sentiment
    IN  /\ Range(out[s].country_list) = {df[i].Country : i \in 1..Len(df)} \ {NaN}
        /\ c \in Range(out[s].country_list)
        /\ out[s].tab1.kind = "chart"
        /\ {rows[k].Sentiment : k \in DOMAIN rows} = L
        /\ Len(rows) = Cardinality(L)
        /\ \A k \in DOMAIN rows : rows[k].Country = c
        /\ \A k \in DOMAIN rows :
               rows[k].Count = Cardinality({i \in 1..Len(df) :
                                   df[i].Country = c /\ df[i].Sentiment = rows[k].Sentiment})
        /\ \E k \in DOMAIN m :
               /\ m[k].Country = c
               /\ m[k].Total_Posts = PostsOf(df, c)
               /\ SumSeq([j \in DOMAIN rows |-> rows[j].Count]) = m[k].Total_Posts

====
